---- MODULE Spec2Model ----
(***************************************************************************)
(* Model of the Sigils of Elohim solver (src/src/lib.rs, src/src/main.rs). *)
(*                                                                         *)
(* A 64-bit word is modelled as the set of the indices of its set bits     *)
(* (a subset of 0..63), so that shifts, masks and trailing_zeros are       *)
(* computed exactly.  A Position is the byte vector `squares`, kept as a   *)
(* sequence of byte values (46 = '.', 10 = newline, 65.. = 'A'..).         *)
(*                                                                         *)
(* Rust defines an overflowing shift or multiplication to panic when the   *)
(* build has overflow checks (dev profile) and to wrap otherwise (release  *)
(* profile); debug_assert! is compiled in under the same profile.  The     *)
(* variable debug_build holds which of the two builds is running.          *)
(***************************************************************************)
EXTENDS Integers, Sequences, FiniteSets, TLC

VARIABLES
    row_count,      \* main.rs: <rows> argument
    column_count,   \* main.rs: <columns> argument
    text,           \* main.rs: <tetrominoes> argument, not yet parsed
    debug_build,    \* TRUE: overflow checks and debug assertions compiled in
    pc,             \* control position of the program
    pieces,         \* Solver.pieces.counts
    given,          \* the PieceCollection as it was passed to solve_one
    width,          \* Board.width
    height,         \* Board.height
    bits,           \* Board.bits
    stack,          \* Board.stack[0..stack_count]
    iter,           \* loop index r of every active Solver::solve_one frame
    solution,       \* the Option<Position> a frame is returning
    result,         \* what the public solve_one returned
    run,            \* number of the current call of solve_one by the harness
    first,          \* what the first call returned, once a second one runs
    entry           \* history: bits, stack and pieces as they were when each
                    \* Solver::solve_one frame that has not been left began

vars == <<row_count, column_count, text, debug_build, pc, pieces, given,
          width, height, bits, stack, iter, solution, result, run, first,
          entry>>

boardVars == <<width, height, bits, stack>>

----------------------------------------------------------------------------
(* Bounds of the model *)

MaxRows == 4
MaxCols == 4
MaxLen == 3
MaxDepth == 2
MaxPermLen == 4

\* the largest number of cells of a grid of labels handed to the Display
MaxCells == 4

\* the sides of the boards handed to the validation alone are 2^k and
\* 2^k + 1 for k up to MaxShift
MaxShift == 16

----------------------------------------------------------------------------
(* Constants of the program *)

MAX_PIECE_COUNT == 12

WordBits == 64

Word == 0 .. (WordBits - 1)

Piece == {"I", "O", "T", "J", "L", "S", "Z"}

PieceArray == <<"I", "O", "T", "J", "L", "S", "Z">>

FixedPieceCount == 19

\* the fixed pieces, numbered from 1 in the order of the enum
I1 == 1
I2 == 2
O1 == 3
T1 == 4
T2 == 5
T3 == 6
T4 == 7
J1 == 8
J2 == 9
J3 == 10
J4 == 11
L1 == 12
L2 == 13
L3 == 14
L4 == 15
S1 == 16
S2 == 17
Z1 == 18
Z2 == 19

FixedPiece == 1 .. FixedPieceCount

\* FixedPiece::array(): the order in which the solver tries the fixed pieces
array ==
    <<I1, I2, O1, T1, T2, T3, T4, J1, J2, J3, J4, L1, L2, L3, L4, S1, S2,
      Z1, Z2>>

\* piece_shapes with J1 drawn as its mirror image
piece_shapes_J1Mirrored ==
    << << <<1, 0>>, <<2, 0>>, <<3, 0>> >>,     \* I1
       << <<0, 1>>, <<0, 2>>, <<0, 3>> >>,     \* I2
       << <<0, 1>>, <<1, 1>>, <<1, 0>> >>,     \* O1
       << <<0, 1>>, <<0, 2>>, <<1, 1>> >>,     \* T1
       << <<1, 0>>, <<1, -1>>, <<2, 0>> >>,    \* T2
       << <<1, -1>>, <<1, 0>>, <<1, 1>> >>,    \* T3
       << <<1, 0>>, <<1, 1>>, <<2, 0>> >>,     \* T4
       << <<1, 0>>, <<2, 0>>, <<2, 1>> >>,     \* J1
       << <<1, 0>>, <<1, 1>>, <<1, 2>> >>,     \* J2
       << <<0, 1>>, <<1, 0>>, <<2, 0>> >>,     \* J3
       << <<0, 1>>, <<0, 2>>, <<1, 2>> >>,     \* J4
       << <<1, 0>>, <<2, 0>>, <<2, 1>> >>,     \* L1
       << <<0, 1>>, <<0, 2>>, <<1, 0>> >>,     \* L2
       << <<0, 1>>, <<1, 1>>, <<2, 1>> >>,     \* L3
       << <<1, -2>>, <<1, -1>>, <<1, 0>> >>,   \* L4
       << <<0, 1>>, <<1, -1>>, <<1, 0>> >>,    \* S1
       << <<1, 0>>, <<1, 1>>, <<2, 1>> >>,     \* S2
       << <<0, 1>>, <<1, 1>>, <<1, 2>> >>,     \* Z1
       << <<1, -1>>, <<1, 0>>, <<2, -1>> >> >> \* Z2

piece_shapes ==
    << << <<1, 0>>, <<2, 0>>, <<3, 0>> >>,     \* I1
       << <<0, 1>>, <<0, 2>>, <<0, 3>> >>,     \* I2
       << <<0, 1>>, <<1, 1>>, <<1, 0>> >>,     \* O1
       << <<0, 1>>, <<0, 2>>, <<1, 1>> >>,     \* T1
       << <<1, 0>>, <<1, -1>>, <<2, 0>> >>,    \* T2
       << <<1, -1>>, <<1, 0>>, <<1, 1>> >>,    \* T3
       << <<1, 0>>, <<1, 1>>, <<2, 0>> >>,     \* T4
       << <<1, 0>>, <<2, -1>>, <<2, 0>> >>,    \* J1
       << <<1, 0>>, <<1, 1>>, <<1, 2>> >>,     \* J2
       << <<0, 1>>, <<1, 0>>, <<2, 0>> >>,     \* J3
       << <<0, 1>>, <<0, 2>>, <<1, 2>> >>,     \* J4
       << <<1, 0>>, <<2, 0>>, <<2, 1>> >>,     \* L1
       << <<0, 1>>, <<0, 2>>, <<1, 0>> >>,     \* L2
       << <<0, 1>>, <<1, 1>>, <<2, 1>> >>,     \* L3
       << <<1, -2>>, <<1, -1>>, <<1, 0>> >>,   \* L4
       << <<0, 1>>, <<1, -1>>, <<1, 0>> >>,    \* S1
       << <<1, 0>>, <<1, 1>>, <<2, 1>> >>,     \* S2
       << <<0, 1>>, <<1, 1>>, <<1, 2>> >>,     \* Z1
       << <<1, -1>>, <<1, 0>>, <<2, -1>> >> >> \* Z2

piece_shape(fixed_piece) == piece_shapes[fixed_piece]

PIECE_MAP ==
    <<"I", "I", "O", "T", "T", "T", "T", "J", "J", "J", "J",
      "L", "L", "L", "L", "S", "S", "Z", "Z">>

Dot == 46

Newline == 10

Marker(index) == index + 65

----------------------------------------------------------------------------
(* PieceCollection *)

NoPieces == [p \in Piece |-> 0]

count(counts, piece) == counts[piece]

remove(counts, piece) == [counts EXCEPT ![piece] = @ - 1]

add(counts, piece) == [counts EXCEPT ![piece] = @ + 1]

RECURSIVE SumFrom(_, _)
SumFrom(counts, i) ==
    IF i > Len(PieceArray) THEN 0
    ELSE counts[PieceArray[i]] + SumFrom(counts, i + 1)

count_all(counts) == SumFrom(counts, 1)

\* CharToPiece that knows the upper-case letters only
CharToPiece_UpperOnly(c) ==
    CASE c = "I" -> "I"
      [] c = "O" -> "O"
      [] c = "T" -> "T"
      [] c = "J" -> "J"
      [] c = "L" -> "L"
      [] c = "S" -> "S"
      [] c = "Z" -> "Z"
      [] OTHER -> "?"

\* the match of from_str: the piece of a char, "?" for the `_` arm
CharToPiece(c) ==
    CASE c \in {"I", "i"} -> "I"
      [] c \in {"O", "o"} -> "O"
      [] c \in {"T", "t"} -> "T"
      [] c \in {"J", "j"} -> "J"
      [] c \in {"L", "l"} -> "L"
      [] c \in {"S", "s"} -> "S"
      [] c \in {"Z", "z"} -> "Z"
      [] OTHER -> "?"

RECURSIVE FromStrLoop(_, _, _)
FromStrLoop(s, i, counts) ==
    IF i > Len(s) THEN [ok |-> TRUE, counts |-> counts]
    ELSE IF CharToPiece(s[i]) = "?" THEN [ok |-> FALSE, counts |-> NoPieces]
    ELSE FromStrLoop(s, i + 1, add(counts, CharToPiece(s[i])))

\* from_str that misses the first character
from_str_SkipFirst(s) == FromStrLoop(s, 2, NoPieces)

from_str(s) == FromStrLoop(s, 1, NoPieces)

----------------------------------------------------------------------------
(* 64-bit words as sets of bit indices *)

MinOf(S) == CHOOSE x \in S : \A y \in S : x <= y

trailing_zeros(w) == IF w = {} THEN WordBits ELSE MinOf(w)

\* w << k for a shift amount already below 64: bits shifted out are lost
Shl(w, k) == {b + k : b \in w} \cap Word

\* w >> k for a shift amount already below 64
Shr(w, k) == {b - k : b \in {x \in w : x >= k}}

\* the shift amount the release build uses (the amount masked to 6 bits)
Masked(k) == k % WordBits

\* a shift amount that panics under overflow checks
ShiftOverflows(k) == k < 0 \/ k >= WordBits

----------------------------------------------------------------------------
(* Board *)

\* the places of the border column: (0..area).skip(width - 1).step_by(width)
BorderSquares(w, h) == {b \in 0 .. (w * h - 1) : b % w = w - 1}

\* the shift amount of one square of a shape: width * square.0 + square.1
SquareShift(w, square) == w * square[1] + square[2]

\* Board::new shifts by `area`, by every border square and by every square
\* of every shape
NewShiftAmounts(w, h) ==
    {w * h} \cup BorderSquares(w, h)
        \cup {SquareShift(w, piece_shape(v)[i]) : v \in FixedPiece, i \in 1 .. 3}

NewOverflows(w, h) == \E k \in NewShiftAmounts(w, h) : ShiftOverflows(k)

\* NewBits without the border column
NewBits_NoBorder(w, h) == Shl(Word, Masked(w * h))

\* Board.bits as Board::new leaves it (shift amounts as the release build
\* masks them; they are the true amounts wherever NewOverflows is false)
NewBits(w, h) ==
    Shl(Word, Masked(w * h)) \cup {Masked(b) : b \in BorderSquares(w, h)}

\* Board.bitmaps[fixed_piece] as Board::new leaves it
Bitmap(w, fixed_piece) ==
    {0} \cup {Masked(SquareShift(w, piece_shape(fixed_piece)[i])) : i \in 1 .. 3}

\* first_empty_square that passes over the first empty square
first_empty_square_Second(b) ==
    trailing_zeros(Word \ (b \cup {trailing_zeros(Word \ b)}))

first_empty_square(b) == trailing_zeros(Word \ b)

\* is_complete that never holds
is_complete_Never(b) == FALSE

is_complete(b) == b = Word

\* push: the bitmap that is tested and, if it fits, recorded
PushBitmap(w, b, fixed_piece) ==
    Shl(Bitmap(w, fixed_piece), Masked(first_empty_square(b)))

PushFits(w, b, fixed_piece) == b \cap PushBitmap(w, b, fixed_piece) = {}

\* push panics: on debug_assert!(stack_count < MAX_PIECE_COUNT) or on the
\* shift by 64 of a complete board in the debug build, on the write to
\* stack[12] in the release build
PushPanics(w, b, st, fixed_piece, dbg) ==
    IF dbg
    THEN Len(st) >= MAX_PIECE_COUNT \/ ShiftOverflows(first_empty_square(b))
    ELSE PushFits(w, b, fixed_piece) /\ Len(st) >= MAX_PIECE_COUNT

PushBits(w, b, fixed_piece) == b \cup PushBitmap(w, b, fixed_piece)

PushStack(w, b, st, fixed_piece) ==
    Append(st, [bitmap |-> PushBitmap(w, b, fixed_piece),
                kind |-> PIECE_MAP[fixed_piece]])

\* pop: debug_assert!(stack_count > 0), or stack_count - 1 out of range
PopPanics(st) == Len(st) = 0

\* PopBits without `self.bits &= !bitmap`
PopBits_Keep(b, st) == b

PopBits(b, st) == b \ st[Len(st)].bitmap

PopStack(st) == SubSeq(st, 1, Len(st) - 1)

\* PopKind that reads the kind from the bottom of the stack
PopKind_Bottom(st) == st[1].kind

PopKind(st) == st[Len(st)].kind

\* position: the index found by bitmaps.iter().position(..), 0 for None
FixedPieceOf(w, bitmap) ==
    LET norm == Shr(bitmap, trailing_zeros(bitmap))
        found == {v \in FixedPiece : Bitmap(w, v) = norm}
    IN  IF found = {} THEN 0 ELSE MinOf(found)

\* EntrySquares without `squares[shift] = marker`: the anchor is not written
EntrySquares_NoAnchor(w, bitmap) ==
    LET shift == trailing_zeros(bitmap)
        shape == piece_shape(FixedPieceOf(w, bitmap))
    IN  {shift + SquareShift(w, shape[i]) : i \in 1 .. 3}

\* position: the indices of `squares` written for one stack entry
EntrySquares(w, bitmap) ==
    LET shift == trailing_zeros(bitmap)
        shape == piece_shape(FixedPieceOf(w, bitmap))
    IN  {shift} \cup {shift + SquareShift(w, shape[i]) : i \in 1 .. 3}

\* position panics on unwrap() of a failed lookup or on an index outside
\* `squares`
PositionPanics(w, h, st) ==
    \E k \in 1 .. Len(st) :
        \/ FixedPieceOf(w, st[k].bitmap) = 0
        \/ \E i \in EntrySquares(w, st[k].bitmap) : i < 0 \/ i >= w * h

RECURSIVE FillSquares(_, _, _, _)
FillSquares(squares, w, st, k) ==
    IF k > Len(st) THEN squares
    ELSE LET written == EntrySquares(w, st[k].bitmap)
         IN  FillSquares(
                [i \in DOMAIN squares |->
                    IF i \in written THEN Marker(k - 1) ELSE squares[i]],
                w, st, k + 1)

\* Position.squares, as a sequence (squares[i] of the code is element i + 1)
position(w, h, st) ==
    LET filled == FillSquares([i \in 0 .. (w * h - 1) |-> Dot], w, st, 1)
    IN  [i \in 1 .. (w * h) |->
            IF (i - 1) % w = w - 1 THEN Newline ELSE filled[i - 1]]

\* str::from_utf8 on one byte of `squares`
Utf8Char(byte) ==
    CASE byte = Newline -> "\n"
      [] byte = Dot -> "."
      [] byte \in 65 .. 90 ->
            <<"A", "B", "C", "D", "E", "F", "G", "H", "I", "J", "K", "L", "M",
              "N", "O", "P", "Q", "R", "S", "T", "U", "V", "W", "X", "Y",
              "Z">>[byte - 64]
      [] OTHER -> "?"

\* Display for Position without the alternate flag
Plain(squares) == [i \in 1 .. Len(squares) |-> Utf8Char(squares[i])]

----------------------------------------------------------------------------
(* Display for Position with the alternate flag ("{:#}").  A char is kept as
   its Unicode scalar value. *)

\* ' ', '?', the box-drawing characters and the shade of an empty square
Space == 32

Unknown == 63

Vertical == 9474

UpLeft == 9496

DownLeft == 9488

VerticalLeft == 9508

UpRight == 9492

DownRight == 9484

VerticalRight == 9500

Horizontal == 9472

UpHorizontal == 9524

DownHorizontal == 9516

Cross == 9532

Shade == 9617

\* BOX_CHARS[char_index] of the code is element char_index + 1
BOX_CHARS ==
    <<Space, Unknown, Unknown, Vertical, Unknown, UpLeft, DownLeft,
      VerticalLeft, Unknown, UpRight, DownRight, VerticalRight, Horizontal,
      UpHorizontal, DownHorizontal, Cross>>

\* the Option<u8> value None of the closure `get`
None == -1

\* the index of the first b'\n' of squares; find(..).unwrap() panics if
\* there is none
PrettyPanics(squares) == \A i \in 1 .. Len(squares) : squares[i] # Newline

PrettyColumnCount(squares) ==
    MinOf({i \in 1 .. Len(squares) : squares[i] = Newline}) - 1

PrettyRowCount(squares) == Len(squares) \div (PrettyColumnCount(squares) + 1)

\* the closure `get`, with the column_count and row_count it captures: the
\* square under the point (row, col) of the picture, None off the board
get(squares, columns, rows, row, col) ==
    IF row < 0 \/ row >= rows \/ col < 0 \/ col >= 2 * columns
    THEN None
    ELSE squares[row * (columns + 1) + (col \div 2) + 1]

ToInt(b) == IF b THEN 1 ELSE 0

\* CharIndex without `down`
CharIndex_NoDown(squares, columns, rows, row, col) ==
    LET top_left == get(squares, columns, rows, row - 1, col - 1)
        top_right == get(squares, columns, rows, row - 1, col)
        bottom_left == get(squares, columns, rows, row, col - 1)
        bottom_right == get(squares, columns, rows, row, col)
    IN  ToInt(top_left # top_right)
          + 4 * ToInt(top_left # bottom_left)
          + 8 * ToInt(top_right # bottom_right)

\* CharIndex whose `left` compares top_left with bottom_right
CharIndex_LeftDiagonal(squares, columns, rows, row, col) ==
    LET top_left == get(squares, columns, rows, row - 1, col - 1)
        top_right == get(squares, columns, rows, row - 1, col)
        bottom_left == get(squares, columns, rows, row, col - 1)
        bottom_right == get(squares, columns, rows, row, col)
    IN  ToInt(top_left # top_right)
          + 2 * ToInt(bottom_left # bottom_right)
          + 4 * ToInt(top_left # bottom_right)
          + 8 * ToInt(top_right # bottom_right)

\* char_index: up = 1, down = 2, left = 4, right = 8
CharIndex(squares, columns, rows, row, col) ==
    LET top_left == get(squares, columns, rows, row - 1, col - 1)
        top_right == get(squares, columns, rows, row - 1, col)
        bottom_left == get(squares, columns, rows, row, col - 1)
        bottom_right == get(squares, columns, rows, row, col)
    IN  ToInt(top_left # top_right)
          + 2 * ToInt(bottom_left # bottom_right)
          + 4 * ToInt(top_left # bottom_left)
          + 8 * ToInt(top_right # bottom_right)

\* PrettyChar without the shade of an empty square
PrettyChar_NoShade(squares, columns, rows, row, col) ==
    LET char_index == CharIndex(squares, columns, rows, row, col)
    IN  IF char_index > 0 THEN BOX_CHARS[char_index + 1] ELSE Space

\* the char written for the point (row, col)
PrettyChar(squares, columns, rows, row, col) ==
    LET char_index == CharIndex(squares, columns, rows, row, col)
    IN  IF char_index > 0 THEN BOX_CHARS[char_index + 1]
        ELSE IF get(squares, columns, rows, row, col) = Dot THEN Shade
        ELSE Space

\* the text written for the rows 0 .. last: 2 * column_count + 1 chars and
\* the newline of writeln! for every row
PrettyRows(squares, columns, rows, last) ==
    LET line == 2 * columns + 2
    IN  [i \in 1 .. ((last + 1) * line) |->
            IF (i - 1) % line = line - 1 THEN Newline
            ELSE PrettyChar(squares, columns, rows,
                            (i - 1) \div line, (i - 1) % line)]

\* Pretty with `for row in 0..row_count`: the last row is not written
Pretty_NoLastRow(squares) ==
    LET columns == PrettyColumnCount(squares)
        rows == PrettyRowCount(squares)
    IN  PrettyRows(squares, columns, rows, rows - 1)

\* Display for Position with the alternate flag
Pretty(squares) ==
    LET columns == PrettyColumnCount(squares)
        rows == PrettyRowCount(squares)
    IN  PrettyRows(squares, columns, rows, rows)

----------------------------------------------------------------------------
(* Inputs *)

RECURSIVE Repeat(_, _)
Repeat(c, n) == IF n = 0 THEN <<>> ELSE <<c>> \o Repeat(c, n - 1)

\* one string for every multiset of at most MaxLen pieces
SortedStrings ==
    UNION {{[i \in 1 .. n |-> PieceArray[f[i]]] :
                f \in {g \in [1 .. n -> 1 .. 7] :
                          \A i \in 1 .. n, j \in 1 .. n : i < j => g[i] <= g[j]}} :
           n \in 0 .. MaxLen}

SmallInputs ==
    {<<r, c, s>> : r \in 1 .. MaxRows, c \in 1 .. MaxCols, s \in SortedStrings}

\* the inputs of the tests and of the benchmark, and boards near the limits
Fixtures ==
    {<<1, 4, <<"I">>>>,
     <<1, 4, <<"T">>>>,
     <<1, 3, <<>>>>,
     <<2, 4, <<"I">>>>,
     <<4, 4, <<"L", "L", "Z", "Z">>>>,
     <<4, 4, <<"I", "J", "L", "Z">>>>,
     <<4, 4, <<"I", "T", "T", "L">>>>,
     <<4, 4, <<"t", "i", "l", "T">>>>,
     <<2, 2, <<"o">>>>,
     <<2, 2, <<"O", "x">>>>,
     <<1, 4, <<"1">>>>,
     <<4, 13, Repeat("I", 13)>>,
     <<4, 4, Repeat("I", 13)>>,
     <<7, 8, <<"i", "I", "o", "O", "t", "T", "j", "J", "l", "L", "s", "S",
               "z", "Z">>>>,
     <<1, 24, Repeat("I", 6)>>,
     <<2, 24, Repeat("I", 12)>>,
     <<1, 48, Repeat("I", 12)>>,
     <<32, 1, Repeat("T", 8)>>,
     <<36, 1, <<"I">> \o Repeat("T", 8)>>,
     <<48, 1, Repeat("I", 12)>>,
     <<16, 3, Repeat("I", 12)>>,
     <<22, 2, Repeat("I", 10) \o <<"O">>>>,
     <<4, 12, Repeat("I", 12)>>}

Inputs == SmallInputs \cup Fixtures

----------------------------------------------------------------------------
(* Results of the public solve_one *)

Pending == [tag |-> "Pending", squares |-> <<>>]

Err(e) == [tag |-> e, squares |-> <<>>]

OkNone == [tag |-> "None", squares |-> <<>>]

OkSome(squares) == [tag |-> "Some", squares |-> squares]

Panicked == [tag |-> "Panic", squares |-> <<>>]

\* A u32 is held as its four bytes, the low byte first, and the full product
\* of two u32 as eight bytes: the integers of the model checker end at
\* 2^31 - 1.
RECURSIVE Bytes(_, _)
Bytes(n, len) ==
    IF len = 0 THEN <<>> ELSE <<n % 256>> \o Bytes(n \div 256, len - 1)

\* the products of bytes that add up in byte k of a product
ColumnSum(a, b, k) ==
    LET term(i) == IF k + 1 - i \in 1 .. 4 THEN a[i] * b[k + 1 - i] ELSE 0
    IN  term(1) + term(2) + term(3) + term(4)

RECURSIVE MulFrom(_, _, _, _)
MulFrom(a, b, k, carry) ==
    IF k > 8 THEN <<>>
    ELSE LET column == carry + ColumnSum(a, b, k)
         IN  <<column % 256>> \o MulFrom(a, b, k + 1, column \div 256)

\* rows x cols without loss: eight bytes
WideProduct(rows, cols) == MulFrom(Bytes(rows, 4), Bytes(cols, 4), 1, 0)

\* `row_count * column_count` does not fit in u32: the debug build panics
\* ("attempt to multiply with overflow"), the release build wraps
MulOverflows(rows, cols) ==
    SubSeq(WideProduct(rows, cols), 5, 8) # <<0, 0, 0, 0>>

\* row_count * column_count in u32, as the release build computes it: the
\* low 32 bits of the product
SquareCount(rows, cols) == SubSeq(WideProduct(rows, cols), 1, 4)

\* n as u32 (n stays below 2^31 in this model)
U32(n) == Bytes(n, 4)

\* a u32 modulo 4
Mod4(u) == u[1] % 4

\* the checks with the limit tested before the consistency
Validation_LimitFirst(rows, cols, counts) ==
    IF Mod4(SquareCount(rows, cols)) # 0 THEN "InvalidBoardSize"
    ELSE IF count_all(counts) > MAX_PIECE_COUNT THEN "PieceCountOverLimit"
    ELSE IF U32(4 * count_all(counts)) # SquareCount(rows, cols)
    THEN "InconsistentPieceCount"
    ELSE "Ok"

\* the checks without the limit
Validation_NoLimit(rows, cols, counts) ==
    IF Mod4(SquareCount(rows, cols)) # 0 THEN "InvalidBoardSize"
    ELSE IF U32(4 * count_all(counts)) # SquareCount(rows, cols)
    THEN "InconsistentPieceCount"
    ELSE "Ok"

\* the three checks of solve_one, in the order of the code
Validation(rows, cols, counts) ==
    IF Mod4(SquareCount(rows, cols)) # 0 THEN "InvalidBoardSize"
    ELSE IF U32(4 * count_all(counts)) # SquareCount(rows, cols)
    THEN "InconsistentPieceCount"
    ELSE IF count_all(counts) > MAX_PIECE_COUNT THEN "PieceCountOverLimit"
    ELSE "Ok"

----------------------------------------------------------------------------
(* The program *)

Init ==
    /\ \E in \in Inputs :
          /\ row_count = in[1]
          /\ column_count = in[2]
          /\ text = in[3]
    /\ debug_build \in BOOLEAN
    /\ pc = "main"
    /\ pieces = NoPieces
    /\ given = NoPieces
    /\ width = 0
    /\ height = 0
    /\ bits = {}
    /\ stack = <<>>
    /\ iter = <<>>
    /\ solution = <<>>
    /\ result = Pending
    /\ run = 1
    /\ first = Pending
    /\ entry = <<>>

\* Parse whatever from_str returns
Parse_Always ==
    /\ pc = "main"
    /\ pieces' = from_str(text).counts
    /\ pc' = "solve_one"
    /\ UNCHANGED <<row_count, column_count, text, debug_build, given, width,
                   height, bits, stack, iter, solution, result, run, first,
                   entry>>

\* main: tetrominoes.parse() succeeds
Parse ==
    /\ pc = "main"
    /\ from_str(text).ok
    /\ pieces' = from_str(text).counts
    /\ pc' = "solve_one"
    /\ UNCHANGED <<row_count, column_count, text, debug_build, given, width,
                   height, bits, stack, iter, solution, result, run, first,
                   entry>>

\* main: tetrominoes.parse() fails and main exits with an error
ParseError ==
    /\ pc = "main"
    /\ ~from_str(text).ok
    /\ pc' = "parse_error"
    /\ UNCHANGED <<row_count, column_count, text, debug_build, pieces, given,
                   width, height, bits, stack, iter, solution, result, run,
                   first, entry>>

\* solve_one panics on `row_count * column_count`
SolveOneMulPanic ==
    /\ pc = "solve_one"
    /\ debug_build
    /\ MulOverflows(row_count, column_count)
    /\ given' = pieces
    /\ result' = Panicked
    /\ pc' = "panic"
    /\ UNCHANGED <<row_count, column_count, text, debug_build, pieces, width,
                   height, bits, stack, iter, solution, run, first, entry>>

\* solve_one returns an error of the validation
SolveOneError ==
    /\ pc = "solve_one"
    /\ ~(debug_build /\ MulOverflows(row_count, column_count))
    /\ Validation(row_count, column_count, pieces) # "Ok"
    /\ given' = pieces
    /\ result' = Err(Validation(row_count, column_count, pieces))
    /\ pc' = "done"
    /\ UNCHANGED <<row_count, column_count, text, debug_build, pieces, width,
                   height, bits, stack, iter, solution, run, first, entry>>

\* solve_one passes the validation and Board::new panics on a shift
SolveOnePanic ==
    /\ pc = "solve_one"
    /\ ~MulOverflows(row_count, column_count)
    /\ Validation(row_count, column_count, pieces) = "Ok"
    /\ debug_build
    /\ NewOverflows(column_count + 1, row_count)
    /\ given' = pieces
    /\ result' = Panicked
    /\ pc' = "panic"
    /\ UNCHANGED <<row_count, column_count, text, debug_build, pieces, width,
                   height, bits, stack, iter, solution, run, first, entry>>

\* solve_one passes the validation, builds the Board and the Solver and
\* calls Solver::solve_one
SolveOneStart ==
    /\ pc = "solve_one"
    /\ ~(debug_build /\ MulOverflows(row_count, column_count))
    /\ Validation(row_count, column_count, pieces) = "Ok"
    /\ ~(debug_build /\ NewOverflows(column_count + 1, row_count))
    /\ given' = pieces
    /\ width' = column_count + 1
    /\ height' = row_count
    /\ bits' = NewBits(column_count + 1, row_count)
    /\ stack' = <<>>
    /\ iter' = <<>>
    /\ pc' = "call"
    /\ UNCHANGED <<row_count, column_count, text, debug_build, pieces,
                   solution, result, run, first, entry>>

\* Solver::solve_one is entered on a complete board: Some(position())
Complete ==
    /\ pc = "call"
    /\ is_complete(bits)
    /\ IF PositionPanics(width, height, stack)
       THEN /\ pc' = "panic"
            /\ result' = Panicked
            /\ solution' = solution
       ELSE /\ pc' = "ret_some"
            /\ solution' = position(width, height, stack)
            /\ result' = result
    /\ UNCHANGED <<row_count, column_count, text, debug_build, pieces, given,
                   width, height, bits, stack, iter, run, first, entry>>

\* Solver::solve_one is entered on an incomplete board: the loop starts
EnterLoop ==
    /\ pc = "call"
    /\ ~is_complete(bits)
    /\ iter' = Append(iter, 1)
    /\ pc' = "loop"
    /\ entry' = Append(entry, [bits |-> bits, stack |-> stack,
                               pieces |-> pieces])
    /\ UNCHANGED <<row_count, column_count, text, debug_build, pieces, given,
                   width, height, bits, stack, solution, result, run, first>>

\* the loop index of the innermost frame
TopIter == iter[Len(iter)]

\* NextIter that stays at the same fixed piece
NextIter_Stuck == iter

NextIter == [iter EXCEPT ![Len(iter)] = @ + 1]

\* the fixed piece *r of the innermost frame
CurrentPiece == array[TopIter]

\* no piece of the kind is left: continue
Skip ==
    /\ pc = "loop"
    /\ TopIter <= FixedPieceCount
    /\ count(pieces, PIECE_MAP[CurrentPiece]) = 0
    /\ iter' = NextIter
    /\ UNCHANGED <<row_count, column_count, text, debug_build, pc, pieces,
                   given, width, height, bits, stack, solution, result, run,
                   first, entry>>

\* push returns Err: the next fixed piece is tried
PushErr ==
    /\ pc = "loop"
    /\ TopIter <= FixedPieceCount
    /\ count(pieces, PIECE_MAP[CurrentPiece]) > 0
    /\ ~PushPanics(width, bits, stack, CurrentPiece, debug_build)
    /\ ~PushFits(width, bits, CurrentPiece)
    /\ iter' = NextIter
    /\ UNCHANGED <<row_count, column_count, text, debug_build, pc, pieces,
                   given, width, height, bits, stack, solution, result, run,
                   first, entry>>

\* PushOk without `if self.pieces.count(t) == 0 { continue; }`
PushOk_NoCount ==
    /\ pc = "loop"
    /\ TopIter <= FixedPieceCount
    /\ ~PushPanics(width, bits, stack, CurrentPiece, debug_build)
    /\ PushFits(width, bits, CurrentPiece)
    /\ bits' = PushBits(width, bits, CurrentPiece)
    /\ stack' = PushStack(width, bits, stack, CurrentPiece)
    /\ pieces' = remove(pieces, PIECE_MAP[CurrentPiece])
    /\ pc' = "call"
    /\ UNCHANGED <<row_count, column_count, text, debug_build, given, width,
                   height, iter, solution, result, run, first, entry>>

\* PushOk without `self.pieces.remove(t)`
PushOk_NoRemove ==
    /\ pc = "loop"
    /\ TopIter <= FixedPieceCount
    /\ count(pieces, PIECE_MAP[CurrentPiece]) > 0
    /\ ~PushPanics(width, bits, stack, CurrentPiece, debug_build)
    /\ PushFits(width, bits, CurrentPiece)
    /\ bits' = PushBits(width, bits, CurrentPiece)
    /\ stack' = PushStack(width, bits, stack, CurrentPiece)
    /\ pc' = "call"
    /\ UNCHANGED <<row_count, column_count, text, debug_build, pieces, given,
                   width, height, iter, solution, result, run, first, entry>>

\* push returns Ok: the piece is removed and solve_one recurses
PushOk ==
    /\ pc = "loop"
    /\ TopIter <= FixedPieceCount
    /\ count(pieces, PIECE_MAP[CurrentPiece]) > 0
    /\ ~PushPanics(width, bits, stack, CurrentPiece, debug_build)
    /\ PushFits(width, bits, CurrentPiece)
    /\ bits' = PushBits(width, bits, CurrentPiece)
    /\ stack' = PushStack(width, bits, stack, CurrentPiece)
    /\ pieces' = remove(pieces, PIECE_MAP[CurrentPiece])
    /\ pc' = "call"
    /\ UNCHANGED <<row_count, column_count, text, debug_build, given, width,
                   height, iter, solution, result, run, first, entry>>

\* the loop is over: the frame returns None
LoopEnd ==
    /\ pc = "loop"
    /\ TopIter > FixedPieceCount
    /\ iter' = SubSeq(iter, 1, Len(iter) - 1)
    /\ solution' = <<>>
    /\ pc' = "ret_none"
    /\ UNCHANGED <<row_count, column_count, text, debug_build, pieces, given,
                   width, height, bits, stack, result, run, first, entry>>

\* Backtrack without pieces.add(t)
Backtrack_NoAdd ==
    /\ pc = "ret_none"
    /\ Len(iter) > 0
    /\ ~PopPanics(stack)
    /\ bits' = PopBits(bits, stack)
    /\ stack' = PopStack(stack)
    /\ iter' = [iter EXCEPT ![Len(iter)] = @ + 1]
    /\ pc' = "loop"
    /\ entry' = SubSeq(entry, 1, Len(entry) - 1)
    /\ UNCHANGED <<row_count, column_count, text, debug_build, pieces, given,
                   width, height, solution, result, run, first>>

\* Backtrack without board.pop()
Backtrack_NoPop ==
    /\ pc = "ret_none"
    /\ Len(iter) > 0
    /\ pieces' = add(pieces, PIECE_MAP[CurrentPiece])
    /\ iter' = NextIter
    /\ pc' = "loop"
    /\ entry' = SubSeq(entry, 1, Len(entry) - 1)
    /\ UNCHANGED <<row_count, column_count, text, debug_build, given, width,
                   height, bits, stack, solution, result, run, first>>

\* the recursive call returned None: pop, add, next fixed piece
Backtrack ==
    /\ pc = "ret_none"
    /\ Len(iter) > 0
    /\ ~PopPanics(stack)
    /\ bits' = PopBits(bits, stack)
    /\ stack' = PopStack(stack)
    /\ pieces' = add(pieces, PIECE_MAP[CurrentPiece])
    /\ iter' = NextIter
    /\ pc' = "loop"
    /\ entry' = SubSeq(entry, 1, Len(entry) - 1)
    /\ UNCHANGED <<row_count, column_count, text, debug_build, given, width,
                   height, solution, result, run, first>>

\* ReturnSome that pops the board on the way up
ReturnSome_Pop ==
    /\ pc = "ret_some"
    /\ Len(iter) > 0
    /\ bits' = PopBits(bits, stack)
    /\ stack' = PopStack(stack)
    /\ iter' = SubSeq(iter, 1, Len(iter) - 1)
    /\ entry' = SubSeq(entry, 1, Len(entry) - 1)
    /\ UNCHANGED <<row_count, column_count, text, debug_build, pc, pieces,
                   given, width, height, solution, result, run, first>>

\* the recursive call returned Some: the frame returns it
ReturnSome ==
    /\ pc = "ret_some"
    /\ Len(iter) > 0
    /\ iter' = SubSeq(iter, 1, Len(iter) - 1)
    /\ entry' = SubSeq(entry, 1, Len(entry) - 1)
    /\ UNCHANGED <<row_count, column_count, text, debug_build, pc, pieces,
                   given, width, height, bits, stack, solution, result, run,
                   first>>

\* the outermost Solver::solve_one returned: solve_one returns Ok(..)
SolveOneReturn ==
    /\ pc \in {"ret_some", "ret_none"}
    /\ Len(iter) = 0
    /\ result' = IF pc = "ret_some" THEN OkSome(solution) ELSE OkNone
    /\ pc' = "done"
    /\ entry' = <<>>
    /\ UNCHANGED <<row_count, column_count, text, debug_build, pieces, given,
                   width, height, bits, stack, iter, solution, run, first>>

Next ==
    \/ Parse
    \/ ParseError
    \/ SolveOneError
    \/ SolveOnePanic
    \/ SolveOneStart
    \/ Complete
    \/ EnterLoop
    \/ Skip
    \/ PushErr
    \/ PushOk
    \/ LoopEnd
    \/ Backtrack
    \/ ReturnSome
    \/ SolveOneReturn

Spec == Init /\ [][Next]_vars

\* the program runs on: it is single-threaded and synchronous, and nothing
\* but itself can hold it up
FairSpec == Init /\ [][Next]_vars /\ WF_vars(Next)

----------------------------------------------------------------------------
(* A harness that calls solve_one a second time (src/bin/benchmark.rs calls
   it once per puzzle, in one process) *)

Injections(n) ==
    {f \in [1 .. n -> 1 .. n] : \A i \in 1 .. n, j \in 1 .. n : f[i] = f[j] => i = j}

Reverse(s) == [i \in 1 .. Len(s) |-> s[Len(s) + 1 - i]]

\* the strings with the letters of s in another order
Rearrangements(s) ==
    IF Len(s) <= MaxPermLen
    THEN {[i \in 1 .. Len(s) |-> s[f[i]]] : f \in Injections(Len(s))}
    ELSE {s, Reverse(s)}

\* solve_one has returned; it is called again, in the same process, with
\* the same rows and columns and the same letters
CallAgain ==
    /\ pc = "done"
    /\ run = 1
    /\ run' = 2
    /\ first' = result
    /\ text' \in Rearrangements(text)
    /\ pc' = "main"
    /\ pieces' = NoPieces
    /\ given' = NoPieces
    /\ width' = 0
    /\ height' = 0
    /\ bits' = {}
    /\ stack' = <<>>
    /\ iter' = <<>>
    /\ solution' = <<>>
    /\ result' = Pending
    /\ entry' = <<>>
    /\ UNCHANGED <<row_count, column_count, debug_build>>

TwiceNext == Next \/ CallAgain

TwiceSpec == Init /\ [][TwiceNext]_vars

----------------------------------------------------------------------------
(* The parser on its own: main up to the end of tetrominoes.parse(), on any
   string *)

\* the 14 letters and some chars that are no letters of a piece
ParseChars ==
    {"I", "i", "O", "o", "T", "t", "J", "j", "L", "l", "S", "s", "Z", "z",
     "X", "x", "1", " "}

\* all strings of at most MaxLen chars, and the strings of the fixtures
ParseStrings ==
    UNION {[1 .. n -> ParseChars] : n \in 0 .. MaxLen}
        \cup {in[3] : in \in Fixtures}

ParseInit ==
    /\ text \in ParseStrings
    /\ row_count = 1
    /\ column_count = 4
    /\ debug_build \in BOOLEAN
    /\ pc = "main"
    /\ pieces = NoPieces
    /\ given = NoPieces
    /\ width = 0
    /\ height = 0
    /\ bits = {}
    /\ stack = <<>>
    /\ iter = <<>>
    /\ solution = <<>>
    /\ result = Pending
    /\ run = 1
    /\ first = Pending
    /\ entry = <<>>

ParseNext ==
    \/ Parse
    \/ ParseError

ParseSpec == ParseInit /\ [][ParseNext]_vars

----------------------------------------------------------------------------
(* The Board on its own, driven as the unit tests drive it: Board::new, then
   any pushes and pops *)

\* the boards of the unit tests and boards near the 64 bits of the word
BoardDims ==
    ((1 .. MaxRows) \X (1 .. MaxCols))
        \cup {<<5, 4>>, <<4, 5>>, <<3, 20>>, <<2, 24>>, <<32, 1>>, <<40, 1>>}

BoardInit ==
    /\ \E d \in BoardDims : row_count = d[1] /\ column_count = d[2]
    /\ debug_build \in BOOLEAN
    /\ text = <<>>
    /\ pieces = NoPieces
    /\ given = NoPieces
    /\ iter = <<>>
    /\ solution = <<>>
    /\ run = 1
    /\ first = Pending
    /\ entry = <<>>
    /\ stack = <<>>
    /\ IF debug_build /\ NewOverflows(column_count + 1, row_count)
       THEN /\ pc = "panic"
            /\ result = Panicked
            /\ width = 0
            /\ height = 0
            /\ bits = {}
       ELSE /\ pc = "board"
            /\ result = Pending
            /\ width = column_count + 1
            /\ height = row_count
            /\ bits = NewBits(column_count + 1, row_count)

\* board.push(fixed_piece) returns Ok(())
BoardPushOk ==
    /\ pc = "board"
    /\ Len(stack) < MaxDepth
    /\ \E v \in FixedPiece :
          /\ ~PushPanics(width, bits, stack, v, debug_build)
          /\ PushFits(width, bits, v)
          /\ bits' = PushBits(width, bits, v)
          /\ stack' = PushStack(width, bits, stack, v)
    /\ result' = [tag |-> "Ok", squares |-> <<>>]
    /\ UNCHANGED <<row_count, column_count, text, debug_build, pc, pieces,
                   given, width, height, iter, solution, run, first, entry>>

\* BoardPushErr with `self.bits |= bitmap` before the test
BoardPushErr_BitsFirst ==
    /\ pc = "board"
    /\ \E v \in FixedPiece :
          /\ ~PushPanics(width, bits, stack, v, debug_build)
          /\ ~PushFits(width, bits, v)
          /\ bits' = PushBits(width, bits, v)
    /\ result' = [tag |-> "Err", squares |-> <<>>]
    /\ UNCHANGED <<row_count, column_count, text, debug_build, pc, pieces,
                   given, width, height, stack, iter, solution, run, first,
                   entry>>

\* board.push(fixed_piece) returns Err(())
BoardPushErr ==
    /\ pc = "board"
    /\ {v \in FixedPiece : /\ ~PushPanics(width, bits, stack, v, debug_build)
                           /\ ~PushFits(width, bits, v)} # {}
    /\ result' = [tag |-> "Err", squares |-> <<>>]
    /\ UNCHANGED <<row_count, column_count, text, debug_build, pc, pieces,
                   given, width, height, bits, stack, iter, solution, run,
                   first, entry>>

\* board.push(fixed_piece) panics
BoardPushPanic ==
    /\ pc = "board"
    /\ {v \in FixedPiece : PushPanics(width, bits, stack, v, debug_build)} # {}
    /\ pc' = "panic"
    /\ result' = Panicked
    /\ UNCHANGED <<row_count, column_count, text, debug_build, pieces, given,
                   width, height, bits, stack, iter, solution, run, first,
                   entry>>

\* board.pop() on a non-empty stack returns the kind of the piece
BoardPop ==
    /\ pc = "board"
    /\ ~PopPanics(stack)
    /\ bits' = PopBits(bits, stack)
    /\ stack' = PopStack(stack)
    /\ result' = [tag |-> PopKind(stack), squares |-> <<>>]
    /\ UNCHANGED <<row_count, column_count, text, debug_build, pc, pieces,
                   given, width, height, iter, solution, run, first, entry>>

\* board.position(), as the tests call it before they format the Position
BoardPosition ==
    /\ pc = "board"
    /\ IF PositionPanics(width, height, stack)
       THEN /\ pc' = "panic"
            /\ result' = Panicked
       ELSE /\ pc' = pc
            /\ result' = [tag |-> "Position",
                          squares |-> position(width, height, stack)]
    /\ UNCHANGED <<row_count, column_count, text, debug_build, pieces, given,
                   width, height, bits, stack, iter, solution, run, first,
                   entry>>

BoardNext ==
    \/ BoardPushOk
    \/ BoardPushErr
    \/ BoardPushPanic
    \/ BoardPop
    \/ BoardPosition

BoardSpec == BoardInit /\ [][BoardNext]_vars

----------------------------------------------------------------------------
(* What the claims speak of: grids, footprints and tilings *)

\* the cells (row, column) of a rows x cols grid
Grid(rows, cols) == (0 .. (rows - 1)) \X (0 .. (cols - 1))

\* the four cells of a fixed piece whose anchor is the cell a
Footprint(v, a) ==
    {a} \cup {<<a[1] + piece_shape(v)[i][1], a[2] + piece_shape(v)[i][2]>> :
                 i \in 1 .. 3}

\* the first cell of a non-empty set of cells in row-major order
FirstCell(cells) ==
    CHOOSE a \in cells :
        \A b \in cells : a[1] < b[1] \/ (a[1] = b[1] /\ a[2] <= b[2])

\* the cells `free` can be covered exactly by the pieces counted in cnt, each
\* piece placed as one of its fixed pieces, anywhere
RECURSIVE CanTile(_, _)
CanTile(free, cnt) ==
    IF free = {} THEN \A p \in Piece : cnt[p] = 0
    ELSE \E v \in FixedPiece :
            /\ cnt[PIECE_MAP[v]] > 0
            /\ \E a \in free :
                  /\ FirstCell(free) \in Footprint(v, a)
                  /\ Footprint(v, a) \subseteq free
                  /\ CanTile(free \ Footprint(v, a),
                             [cnt EXCEPT ![PIECE_MAP[v]] = @ - 1])

Tileable(rows, cols, cnt) == CanTile(Grid(rows, cols), cnt)

\* the byte a Position shows for the cell (r, c) of a grid with cols columns
CellAt(squares, cols, r, c) == squares[r * (cols + 1) + c + 1]

\* the letters a Position shows
LettersOf(squares) == {squares[i] : i \in 1 .. Len(squares)} \ {Dot, Newline}

\* the cells that show the byte m
CellsOf(squares, rows, cols, m) ==
    {a \in Grid(rows, cols) : CellAt(squares, cols, a[1], a[2]) = m}

\* a set of cells moved so that its first cell is the origin
Normalized(cells) ==
    {<<a[1] - FirstCell(cells)[1], a[2] - FirstCell(cells)[2]>> : a \in cells}

\* the fixed pieces whose footprint is the given set of cells, up to a move
VariantsOf(cells) ==
    {v \in FixedPiece : Normalized(cells) = Footprint(v, <<0, 0>>)}

\* solve_one has returned (or died) on an input that passed the validation
Settled ==
    /\ pc \in {"done", "panic"}
    /\ result.tag \in {"Some", "None", "Panic"}

ReturnedSome == pc = "done" /\ result.tag = "Some"

\* the Position has the size of the grid
GridSized(squares) == Len(squares) = row_count * (column_count + 1)

----------------------------------------------------------------------------
(* C1: solve_one answers Some exactly when the grid can be tiled *)

\* C1: on every input that passes the three checks solve_one returns
\* Ok(Some(_)) if the grid can be tiled exactly by the given pieces and
\* Ok(None) if it cannot; it returns nothing else.
C1_SomeIffTileable ==
    Settled =>
        result.tag = IF Tileable(row_count, column_count, given)
                     THEN "Some" ELSE "None"

----------------------------------------------------------------------------
(* C2: a returned Position is full *)

\* C2: when solve_one returns Ok(Some(p)), p has no '.' cell: every cell of
\* the grid carries a letter and the lettered cells number 4 x piece count.
C2_NoPartialSolution ==
    ReturnedSome =>
        /\ GridSized(result.squares)
        /\ \A a \in Grid(row_count, column_count) :
              CellAt(result.squares, column_count, a[1], a[2])
                  \notin {Dot, Newline}
        /\ row_count * column_count = 4 * count_all(given)

----------------------------------------------------------------------------
(* C3: every letter of a returned Position is a tetromino *)

\* C3: when solve_one returns Ok(Some(p)), the cells of each letter of p are
\* exactly 4 and, moved so that the first of them is the origin, are the
\* footprint of one of the 19 fixed pieces.
C3_LettersAreFixedPieces ==
    ReturnedSome =>
        /\ GridSized(result.squares)
        /\ \A m \in LettersOf(result.squares) :
              LET cells == CellsOf(result.squares, row_count, column_count, m)
              IN  Cardinality(cells) = 4 /\ VariantsOf(cells) # {}

C3_Witness ==
    /\ ReturnedSome
    /\ GridSized(result.squares)
    /\ Cardinality(LettersOf(result.squares)) >= 3

----------------------------------------------------------------------------
(* C4: every given piece is placed exactly once *)

\* the number of live stack entries of one kind
Placed(st, p) == Cardinality({k \in 1 .. Len(st) : st[k].kind = p})

\* C4: when solve_one returns Ok(Some(p)), the kinds recorded on the
\* placement stack are the given multiset and no piece is left over.
C4_EveryPieceUsedOnce ==
    ReturnedSome =>
        \A p \in Piece : pieces[p] = 0 /\ Placed(stack, p) = given[p]

----------------------------------------------------------------------------
(* C5: the tiling returned is the least one in the canonical order *)

\* the Position shows an exact tiling of the grid by the pieces counted in cnt
IsExactTiling(squares, rows, cols, cnt) ==
    /\ Len(squares) = rows * (cols + 1)
    /\ \A a \in Grid(rows, cols) :
          CellAt(squares, cols, a[1], a[2]) \notin {Dot, Newline}
    /\ \A m \in LettersOf(squares) :
          /\ Cardinality(CellsOf(squares, rows, cols, m)) = 4
          /\ VariantsOf(CellsOf(squares, rows, cols, m)) # {}
    /\ \A p \in Piece :
          Cardinality({m \in LettersOf(squares) :
              \E v \in VariantsOf(CellsOf(squares, rows, cols, m)) :
                  PIECE_MAP[v] = p}) = cnt[p]

\* no tiling of `free` by cnt agrees with the shown one on the pieces before
\* the one that covers the first free cell and has there a fixed piece that
\* comes earlier in the canonical order; and so on for the rest of the grid
RECURSIVE LeastFrom(_, _, _, _, _)
LeastFrom(squares, rows, cols, free, cnt) ==
    IF free = {} THEN TRUE
    ELSE LET m == CellAt(squares, cols, FirstCell(free)[1], FirstCell(free)[2])
             cells == CellsOf(squares, rows, cols, m)
             v == CHOOSE x \in VariantsOf(cells) : TRUE
         IN  /\ \A u \in 1 .. (v - 1) :
                   ~ /\ cnt[PIECE_MAP[u]] > 0
                     /\ \E a \in free :
                           /\ FirstCell(free) \in Footprint(u, a)
                           /\ Footprint(u, a) \subseteq free
                           /\ CanTile(free \ Footprint(u, a),
                                      [cnt EXCEPT ![PIECE_MAP[u]] = @ - 1])
             /\ LeastFrom(squares, rows, cols, free \ cells,
                          [cnt EXCEPT ![PIECE_MAP[v]] = @ - 1])

\* C5: the Position solve_one returns is an exact tiling and, of all exact
\* tilings, the one whose sequence of fixed pieces in the order of their
\* anchor cells is the least in the order I1, I2, O1, T1, ..., Z2.
C5_LeastTilingReturned ==
    ReturnedSome =>
        /\ IsExactTiling(result.squares, row_count, column_count, given)
        /\ LeastFrom(result.squares, row_count, column_count,
                     Grid(row_count, column_count), given)

----------------------------------------------------------------------------
(* C6: the two known solutions *)

\* C6: solve_one(1, 4, "I") returns the Position "AAAA\n" and
\* solve_one(4, 4, "LLZZ") the Position "AAAB\nACBB\nCCBD\nCDDD\n".
C6_KnownSolutions ==
    /\ (pc = "done" /\ row_count = 1 /\ column_count = 4 /\ text = <<"I">>)
          => /\ result.tag = "Some"
             /\ Plain(result.squares) = <<"A", "A", "A", "A", "\n">>
    /\ (pc = "done" /\ row_count = 4 /\ column_count = 4
            /\ text = <<"L", "L", "Z", "Z">>)
          => /\ result.tag = "Some"
             /\ Plain(result.squares) =
                   <<"A", "A", "A", "B", "\n",
                     "A", "C", "B", "B", "\n",
                     "C", "C", "B", "D", "\n",
                     "C", "D", "D", "D", "\n">>

C6_Witness ==
    /\ pc = "done"
    /\ row_count = 4
    /\ column_count = 4
    /\ text = <<"L", "L", "Z", "Z">>
    /\ result.tag = "Some"

----------------------------------------------------------------------------
(* C8: the order of the checks *)

ErrorTags == {"InvalidBoardSize", "InconsistentPieceCount", "PieceCountOverLimit"}

\* solve_one has been called and has left the validation behind
PastValidation == pc \notin {"main", "parse_error", "solve_one"}

----------------------------------------------------------------------------
(* C9: no search before the checks have passed *)

\* the Board has not been built and no piece has been moved
Untouched ==
    /\ width = 0
    /\ height = 0
    /\ bits = {}
    /\ stack = <<>>
    /\ iter = <<>>
    /\ pieces = given

SearchStarted == pc \in {"call", "loop", "ret_none", "ret_some"} \/ width > 0

\* C9: on an input that yields an error no Board is built and no push, pop,
\* remove or add is made; a search never starts with more than 12 pieces;
\* and once the search has started solve_one returns no error.
C9_ChecksBeforeSearch ==
    /\ result.tag \in ErrorTags => Untouched
    /\ SearchStarted =>
          /\ count_all(given) <= MAX_PIECE_COUNT
          /\ 4 * count_all(given) = row_count * column_count
          /\ result.tag \notin ErrorTags

C9_Witness ==
    /\ pc = "done"
    /\ result.tag = "PieceCountOverLimit"
    /\ Untouched

----------------------------------------------------------------------------
(* C7: the same input gives the same result *)

PieceIndex(p) == CHOOSE i \in 1 .. 7 : PieceArray[i] = p

\* C7: a second call of solve_one with the same rows and columns and the
\* same count of every kind, the letters in any order, ends as the first
\* call did: the same error, or None, or a Position equal byte for byte.
C7_SameInputSameResult ==
    (run = 2 /\ pc \in {"done", "panic", "parse_error"}) =>
        pc = "done" /\ result = first

C7_Witness ==
    /\ run = 2
    /\ pc = "done"
    /\ result.tag = "Some"
    /\ result = first
    /\ Len(text) >= 3
    /\ PieceIndex(CharToPiece(text[1])) > PieceIndex(CharToPiece(text[2]))

----------------------------------------------------------------------------
(* C10: the plain rendering of any board *)

Letters == {"A", "B", "C", "D", "E", "F", "G", "H", "I", "J", "K", "L"}

\* the text is `rows` lines of `cols` characters '.' or 'A'..'L', each line
\* ended by a newline
WellFormedPlain(t, rows, cols) ==
    /\ Len(t) = rows * (cols + 1)
    /\ \A i \in 1 .. Len(t) :
          IF i % (cols + 1) = 0 THEN t[i] = "\n"
          ELSE t[i] \in {"."} \cup Letters

\* C10: in every state a Board reaches from Board::new(R, C) by pushes and
\* pops, position() renders as R lines of C characters '.' or 'A'..'L',
\* each line ended by a newline.
C10_PlainRenderingShape ==
    pc = "board" =>
        /\ ~PositionPanics(width, height, stack)
        /\ WellFormedPlain(Plain(position(width, height, stack)),
                           row_count, column_count)

----------------------------------------------------------------------------
(* C11: the size of the pretty rendering *)

\* board.position() has just returned a Position
PositionTaken == pc = "board" /\ result.tag = "Position"

\* C11: the pretty rendering of a Position taken from an R x C board, filled
\* or partly filled, is R + 1 lines, each of 2*C + 1 glyphs followed by a
\* newline.
C11_PrettyLines ==
    PositionTaken =>
        /\ ~PrettyPanics(result.squares)
        /\ LET t == Pretty(result.squares)
               line == 2 * column_count + 2
           IN  /\ Len(t) = (row_count + 1) * line
               /\ \A i \in 1 .. Len(t) : (t[i] = Newline) <=> (i % line = 0)

C11_Witness ==
    /\ PositionTaken
    /\ row_count >= 3
    /\ column_count >= 3
    /\ Cardinality(LettersOf(result.squares)) = 2
    /\ \E i \in 1 .. Len(result.squares) : result.squares[i] = Dot

----------------------------------------------------------------------------
(* C12: the pretty rendering of an empty board *)

\* the bordered rectangle of rows + 1 lines: corners, '─' along the first and
\* the last line, '│' at both ends of the lines between and '░' inside
EmptyRectangle(rows, cols) ==
    LET line == 2 * cols + 2
    IN  [i \in 1 .. ((rows + 1) * line) |->
            LET r == (i - 1) \div line
                c == (i - 1) % line
            IN  IF c = line - 1 THEN Newline
                ELSE IF r = 0
                THEN (IF c = 0 THEN DownRight
                      ELSE IF c = 2 * cols THEN DownLeft ELSE Horizontal)
                ELSE IF r = rows
                THEN (IF c = 0 THEN UpRight
                      ELSE IF c = 2 * cols THEN UpLeft ELSE Horizontal)
                ELSE IF c = 0 \/ c = 2 * cols THEN Vertical
                ELSE Shade]

\* C12: the Position of an empty R x C board pretty-renders as the bordered
\* rectangle: '┌', 2C-1 times '─', '┐'; R-1 lines '│', 2C-1 times '░', '│';
\* '└', 2C-1 times '─', '┘'.
C12_EmptyBoardRectangle ==
    (PositionTaken /\ stack = <<>>) =>
        /\ ~PrettyPanics(result.squares)
        /\ Pretty(result.squares) = EmptyRectangle(row_count, column_count)

C12_Witness ==
    /\ PositionTaken
    /\ stack = <<>>
    /\ row_count = 4
    /\ column_count = 5
    /\ Pretty(result.squares)[14] = Shade

----------------------------------------------------------------------------
(* C13: boundaries lie exactly between cells of different labels *)

\* the glyphs with a stroke from the centre downwards
DownStroke ==
    {Vertical, DownLeft, VerticalLeft, DownRight, VerticalRight,
     DownHorizontal, Cross}

\* the glyph at line r, column c of a rendering of a grid with cols columns
GlyphAt(t, cols, r, c) == t[r * (2 * cols + 2) + c + 1]

\* C13: in the pretty rendering of a Position of an R x C board the glyph at
\* line r (1 <= r <= R-1), column 2k+1 is '─' if the cells (r-1, k) and
\* (r, k) differ in label and '░' or blank if not; the glyph at line r
\* (0 <= r <= R-1), column 2k (1 <= k <= C-1) has a downward stroke exactly
\* if the cells (r, k-1) and (r, k) differ in label.
C13_BoundariesBetweenLabels ==
    PositionTaken =>
        LET t == Pretty(result.squares)
            label(r, k) == CellAt(result.squares, column_count, r, k)
        IN  /\ \A r \in 1 .. (row_count - 1), k \in 0 .. (column_count - 1) :
                  IF label(r - 1, k) # label(r, k)
                  THEN GlyphAt(t, column_count, r, 2 * k + 1) = Horizontal
                  ELSE GlyphAt(t, column_count, r, 2 * k + 1) \in {Shade, Space}
            /\ \A r \in 0 .. (row_count - 1), k \in 1 .. (column_count - 1) :
                  (GlyphAt(t, column_count, r, 2 * k) \in DownStroke)
                      <=> (label(r, k - 1) # label(r, k))

C13_Witness ==
    /\ PositionTaken
    /\ row_count >= 3
    /\ column_count >= 3
    /\ LET label(r, k) == CellAt(result.squares, column_count, r, k)
       IN  /\ label(0, 0) # Dot
           /\ label(1, 0) \notin {Dot, label(0, 0)}
           /\ label(1, 1) = Dot
           /\ label(2, 1) = Dot

----------------------------------------------------------------------------
(* C14: parsing a string of piece letters *)

\* the lower-case letter of a piece
LowerCase(p) ==
    CASE p = "I" -> "i" [] p = "O" -> "o" [] p = "T" -> "t" [] p = "J" -> "j"
      [] p = "L" -> "l" [] p = "S" -> "s" [] p = "Z" -> "z"

PieceLetters == Piece \cup {LowerCase(p) : p \in Piece}

\* the number of places of s that hold the letter of p, in either case
Occurrences(s, p) ==
    Cardinality({i \in 1 .. Len(s) : s[i] = p \/ s[i] = LowerCase(p)})

OnlyPieceLetters(s) == \A i \in 1 .. Len(s) : s[i] \in PieceLetters

\* tetrominoes.parse() has returned
Parsed == pc \in {"solve_one", "parse_error"}

\* C14: a string made only of the letters I, O, T, J, L, S, Z in either case
\* parses; the count of each kind is the number of occurrences of its letter
\* in either case and count_all() is the length of the string;
\* "iIoOtTjJlLsSzZ" gives 2 of every kind and "" gives 0 of every kind.
C14_ParseCountsLetters ==
    /\ (Parsed /\ OnlyPieceLetters(text)) =>
          /\ pc = "solve_one"
          /\ \A p \in Piece : count(pieces, p) = Occurrences(text, p)
          /\ count_all(pieces) = Len(text)
    /\ (Parsed /\ text = <<"i", "I", "o", "O", "t", "T", "j", "J", "l", "L",
                           "s", "S", "z", "Z">>) =>
          pc = "solve_one" /\ pieces = [p \in Piece |-> 2]
    /\ (Parsed /\ text = <<>>) =>
          pc = "solve_one" /\ pieces = [p \in Piece |-> 0]

C14_Witness ==
    /\ pc = "solve_one"
    /\ Len(text) = 14
    /\ text[1] = "i"
    /\ text[2] = "I"
    /\ pieces = [p \in Piece |-> 2]

----------------------------------------------------------------------------
(* C15: parsing a string with another character *)

\* C15: parsing fails with UnrecognizedCharacter exactly if the string holds
\* a character that is none of the 14 letters, wherever it stands; after a
\* failure there is no PieceCollection, not even one of the letters before
\* the character, and solve_one is not called.
C15_ParseFailsOnOtherCharacter ==
    Parsed =>
        /\ (pc = "parse_error") <=> ~OnlyPieceLetters(text)
        /\ (pc = "parse_error") => (pieces = NoPieces /\ ~from_str(text).ok
                                       /\ from_str(text).counts = NoPieces)

C15_Witness ==
    /\ pc = "parse_error"
    /\ Len(text) = 3
    /\ text[1] = "I"
    /\ text[2] = "o"
    /\ text[3] = "X"

----------------------------------------------------------------------------
(* C16: what a push does, in terms of the cells of the grid *)

\* the bit of the occupancy word that stands for the cell a
BitOf(w, a) == w * a[1] + a[2]

\* solve_one's validation accepts the board with some multiset of pieces
Validated(rows, cols) ==
    \E n \in 0 .. MAX_PIECE_COUNT :
        Validation(rows, cols, [NoPieces EXCEPT !["I"] = n]) = "Ok"

\* the cells of the grid whose bit is set
OccupiedCells(w, b, rows, cols) ==
    {a \in Grid(rows, cols) : BitOf(w, a) \in b}

\* the cells of the grid claimed by the placements on the stack
StackCells(w, st, rows, cols) ==
    {a \in Grid(rows, cols) : \E k \in 1 .. Len(st) : BitOf(w, a) \in st[k].bitmap}

\* push(v) returns Ok(())
PushSucceeds(v) ==
    /\ ~PushPanics(width, bits, stack, v, debug_build)
    /\ PushFits(width, bits, v)

\* C16: in every state a Board reaches from Board::new(R, C) by pushes and
\* pops, for R x C that the validation accepts, the occupied cells are those
\* of the live placements; push(v) succeeds exactly if the four cells of v
\* anchored at the first empty cell lie in the grid and are empty; and the
\* bitmap it records is exactly those four cells.
C16_PushCoversFourFreeCells ==
    (pc = "board" /\ Validated(row_count, column_count)) =>
        LET occupied == OccupiedCells(width, bits, row_count, column_count)
            free == Grid(row_count, column_count) \ occupied
        IN  /\ occupied = StackCells(width, stack, row_count, column_count)
            /\ \A v \in FixedPiece :
                  IF free = {} THEN ~PushSucceeds(v)
                  ELSE LET cells == Footprint(v, FirstCell(free))
                       IN  /\ PushSucceeds(v) <=> cells \subseteq free
                           /\ PushSucceeds(v) =>
                                 PushBitmap(width, bits, v)
                                     = {BitOf(width, a) : a \in cells}

----------------------------------------------------------------------------
(* C17: the board fits the word *)

\* solve_one was called with an input that passed its three checks
Accepted == PastValidation /\ result.tag \notin ErrorTags

\* C17: for every input the validation accepts, the board with its border
\* column has at most 64 squares, (column_count + 1) x row_count <= 64, and
\* Board::new shifts by less than 64 throughout.
C17_BoardFitsWord ==
    Accepted =>
        /\ (column_count + 1) * row_count <= WordBits
        /\ \A k \in NewShiftAmounts(column_count + 1, row_count) : k < WordBits

----------------------------------------------------------------------------
(* C18: the border and the padding stay set *)

\* the bits of the word that stand for a square of the border column or for
\* no square of the board at all
SentinelBits(w, h) ==
    {i \in Word : i >= w * h \/ i % w = w - 1}

\* C18: in every state a Board reaches from Board::new by pushes and pops,
\* every bit of the border column and every bit from width x height on is
\* set, and no placement on the stack holds such a bit (so no push has
\* recorded one and no pop has cleared one).
C18_SentinelsStaySet ==
    pc = "board" =>
        /\ SentinelBits(width, height) \subseteq bits
        /\ \A k \in 1 .. Len(stack) :
              stack[k].bitmap \cap SentinelBits(width, height) = {}

C18_Witness ==
    /\ pc = "board"
    /\ result.tag \in Piece
    /\ Len(stack) >= 1
    /\ height >= 3
    /\ \E k \in 1 .. Len(stack) : (width - 2) \in stack[k].bitmap
    /\ SentinelBits(width, height) \subseteq bits

----------------------------------------------------------------------------
(* C20: a failed push changes nothing *)

\* what position() renders, or <<"panic">> if it panics
Rendered(w, h, st) ==
    IF PositionPanics(w, h, st) THEN <<"panic">>
    ELSE Plain(position(w, h, st))

\* a step in which board.push(..) returns Err(())
PushFailed == pc = "board" /\ pc' = "board" /\ result'.tag = "Err"

\* C20: a push that fails leaves the occupancy, the length of the placement
\* stack and its entries as they were, and position() renders the same text
\* after it as before it; on Board::new(1, 4) a failed push leaves "....\n".
C20_FailedPushChangesNothing ==
    [][PushFailed =>
          /\ bits' = bits
          /\ Len(stack') = Len(stack)
          /\ stack' = stack
          /\ width' = width
          /\ height' = height
          /\ Rendered(width', height', stack') = Rendered(width, height, stack)
          /\ (row_count = 1 /\ column_count = 4 /\ stack = <<>>) =>
                Rendered(width', height', stack') = <<".", ".", ".", ".", "\n">>
      ]_vars

C20_Witness ==
    /\ pc = "board"
    /\ result.tag = "Err"
    /\ Len(stack) >= 2
    /\ ~is_complete(bits)
    /\ ~PositionPanics(width, height, stack)

----------------------------------------------------------------------------
(* C19: a call that returns None leaves everything as it found it *)

\* the board and the pieces are what they were when the innermost frame
\* that has not been left began
AsAtEntry ==
    LET began == entry[Len(entry)]
    IN  /\ bits = began.bits
        /\ Len(stack) = Len(began.stack)
        /\ \A k \in 1 .. Len(began.stack) : stack[k] = began.stack[k]
        /\ \A p \in Piece : count(pieces, p) = count(began.pieces, p)

\* C19: when a call of Solver::solve_one, at any depth, returns None, the
\* occupancy, the placement stack and the count of every kind are what they
\* were when the call began; and so they are whenever the loop of a call
\* is about to try its next fixed piece.
C19_NoneRestoresState ==
    /\ pc = "ret_none" => AsAtEntry
    /\ pc = "loop" => AsAtEntry

C19_Witness ==
    /\ pc = "ret_none"
    /\ Len(iter) >= 2
    /\ Len(stack) >= 2
    /\ count_all(pieces) >= 1
    /\ AsAtEntry

----------------------------------------------------------------------------
(* C21: push and pop are inverse; pop takes the last piece only *)

\* a step in which board.pop() returns
Popped == pc = "board" /\ pc' = "board" /\ result'.tag \in Piece

\* a step in which board.push(..) returns Ok(())
Pushed == pc = "board" /\ pc' = "board" /\ result'.tag = "Ok"

\* pop() on the board a successful push(v) has just left gives back the
\* occupancy and the stack of before the push, and returns the kind of v
PushPopRoundTrip ==
    /\ ~PopPanics(stack')
    /\ PopBits(bits', stack') = bits
    /\ Len(PopStack(stack')) = Len(stack)
    /\ PopStack(stack') = stack
    /\ \A v \in FixedPiece :
          (PushSucceeds(v) /\ stack' = PushStack(width, bits, stack, v)) =>
              PopKind(stack') = PIECE_MAP[v]

\* the Position after a pop differs from the one before it only where the
\* last letter stood, and shows '.' there
OnlyLastLetterGone(before, after, last) ==
    after = [i \in 1 .. Len(before) |->
                IF before[i] = last THEN Dot ELSE before[i]]

\* C21: on any reachable board a successful push(v) followed at once by
\* pop() restores occupancy and stack and pop returns the kind of v; a pop
\* removes the last pushed piece only: the entries below it stay, and so do
\* their letters in the Position.  After push(O1), push(I1), pop() on the
\* board of 5 x 4 pop returns I and the Position is that of the test pop2.
C21_PopUndoesLastPush ==
    [][/\ Pushed => PushPopRoundTrip
       /\ Popped =>
             /\ Len(stack') = Len(stack) - 1
             /\ \A k \in 1 .. Len(stack') : stack'[k] = stack[k]
             /\ stack' = PopStack(stack)
             /\ width' = width
             /\ height' = height
             /\ bits' = bits \ stack[Len(stack)].bitmap
             /\ result'.tag = stack[Len(stack)].kind
             /\ (~PositionPanics(width, height, stack)) =>
                   /\ ~PositionPanics(width, height, PopStack(stack))
                   /\ OnlyLastLetterGone(position(width, height, stack),
                                         position(width, height, PopStack(stack)),
                                         Marker(Len(stack) - 1))
             /\ (/\ row_count = 5
                 /\ column_count = 4
                 /\ Len(stack) = 2
                 /\ stack[1].kind = "O"
                 /\ stack[2].kind = "I") =>
                   /\ result'.tag = "I"
                   /\ Plain(position(width, height, PopStack(stack))) =
                         <<"A", "A", ".", ".", "\n",
                           "A", "A", ".", ".", "\n",
                           ".", ".", ".", ".", "\n",
                           ".", ".", ".", ".", "\n",
                           ".", ".", ".", ".", "\n">>
      ]_vars

C21_Witness ==
    /\ pc = "board"
    /\ result.tag = "I"
    /\ row_count = 5
    /\ column_count = 4
    /\ Len(stack) = 1
    /\ stack[1].kind = "O"
    /\ bits = NewBits(width, height) \cup stack[1].bitmap

----------------------------------------------------------------------------
(* C22: the stack and the occupancy word agree *)

\* the union of the bitmaps of the live stack entries
StackBits(st) == UNION {st[k].bitmap : k \in 1 .. Len(st)}

\* C22: in every state a Board reaches by pushes and pops the length of the
\* stack is the number of pieces on the board (the letters of the Position),
\* the bitmaps of the live entries are pairwise disjoint and hold no border
\* or padding bit, and the occupancy is the border and padding bits
\* together with the bitmaps of the live entries.
C22_StackMatchesOccupancy ==
    pc = "board" =>
        /\ ~PositionPanics(width, height, stack)
        /\ Cardinality(LettersOf(position(width, height, stack))) = Len(stack)
        /\ \A j \in 1 .. Len(stack), k \in 1 .. Len(stack) :
              j # k => stack[j].bitmap \cap stack[k].bitmap = {}
        /\ StackBits(stack) \cap SentinelBits(width, height) = {}
        /\ bits = SentinelBits(width, height) \cup StackBits(stack)

----------------------------------------------------------------------------
(* C23: no count goes below 0 *)

\* the loop of the innermost frame stands at a fixed piece of kind p
AtVariantOf(p) ==
    pc = "loop" /\ TopIter <= FixedPieceCount /\ PIECE_MAP[CurrentPiece] = p

\* C23: in every step of a run of solve_one, the board takes a piece (a
\* push succeeded) only if the loop stands at a variant of a kind whose
\* count is above 0; a count goes down only by 1, only from a value above
\* 0, and only for the kind of the variant just pushed; and no count is
\* below 0 afterwards.
C23_RemoveOnlyWhatIsThere ==
    [][/\ \A p \in Piece : count(pieces', p) >= 0
       /\ stack' # stack /\ Len(stack') > Len(stack) =>
              /\ pc = "loop"
              /\ count(pieces, PIECE_MAP[CurrentPiece]) > 0
              /\ stack'[Len(stack')].kind = PIECE_MAP[CurrentPiece]
       /\ \A p \in Piece :
              count(pieces', p) < count(pieces, p) =>
                  /\ AtVariantOf(p)
                  /\ count(pieces, p) > 0
                  /\ count(pieces', p) = count(pieces, p) - 1
                  /\ stack' = PushStack(width, bits, stack, CurrentPiece)]_vars

\* the loop stands at a variant that would fit, of a kind that is used up
C23_Witness ==
    /\ pc = "loop"
    /\ TopIter <= FixedPieceCount
    /\ Len(stack) >= 1
    /\ count(given, PIECE_MAP[CurrentPiece]) > 0
    /\ count(pieces, PIECE_MAP[CurrentPiece]) = 0
    /\ PushFits(width, bits, CurrentPiece)

----------------------------------------------------------------------------
(* C24: the pieces are conserved *)

----------------------------------------------------------------------------
(* C25: the contracts of pop, push and position are honoured *)

\* the bitmaps that position() looks an entry up in
Bitmaps(w) == {Bitmap(w, v) : v \in FixedPiece}

\* the lookup of position() finds every entry of the stack
LookupFinds(w, st) ==
    \A k \in 1 .. Len(st) :
        Shr(st[k].bitmap, trailing_zeros(st[k].bitmap)) \in Bitmaps(w)

\* the solver is about to call board.push
AboutToPush ==
    /\ pc = "loop"
    /\ TopIter <= FixedPieceCount
    /\ count(pieces, PIECE_MAP[CurrentPiece]) > 0

\* the solver is about to call board.pop
AboutToPop == pc = "ret_none" /\ Len(iter) > 0

\* the solver is about to call board.position
AboutToRender == pc = "call" /\ is_complete(bits)

\* C25: in a run of solve_one on an input that passed the validation, pop
\* is called on a stack that is not empty, push is called on a board whose
\* first empty square is below 64, and position() is called on a stack
\* whose every bitmap, shifted down by its lowest set bit, is one of the 19
\* bitmaps.
C25_ContractsHonoured ==
    /\ AboutToPop => Len(stack) > 0
    /\ AboutToPush => first_empty_square(bits) < WordBits
    /\ AboutToRender =>
          LookupFinds(width, stack) /\ ~PositionPanics(width, height, stack)

\* position() is about to be called on a board that the search has filled
C25_Witness ==
    /\ AboutToRender
    /\ Len(stack) >= 4
    /\ Len(iter) = Len(stack)
    /\ LookupFinds(width, stack)

----------------------------------------------------------------------------
(* C26: the stack and the depth of the recursion *)

\* the depth of the call of Solver::solve_one that is running, being
\* entered or returning; the outermost call has depth 0
Depth == IF pc = "loop" THEN Len(iter) - 1 ELSE Len(iter)

\* a call of Solver::solve_one is being entered, is in its loop, or
\* returns None
Searching == pc \in {"call", "loop", "ret_none"}

\* the bounds of the stack that hold throughout
StackBounded ==
    /\ AboutToPush => Len(stack) < 12
    /\ Len(stack) <= 12
    /\ Len(stack) <= count_all(given)

\* C26 as stated: at every push of the solver the stack holds fewer than 12
\* entries; the stack length never exceeds 12, equals the depth of the
\* recursion at every moment of the run of Solver::solve_one, and never
\* exceeds the number of pieces of the input.
C26_StackIsDepth ==
    SearchStarted =>
        /\ StackBounded
        /\ (Searching \/ pc = "ret_some") => Len(stack) = Depth

\* C26, amended: the stack length equals the depth of the recursion while
\* the search is under way; while Some is handed up, the calls return, the
\* stack keeps its pieces and the depth is at most the stack length. The
\* three bounds hold throughout.
C26_StackIsDepthWhileSearching ==
    SearchStarted =>
        /\ StackBounded
        /\ Searching => Len(stack) = Depth
        /\ pc = "ret_some" => Depth <= Len(stack)

\* the solver is about to push the twelfth piece, at depth 11
C26_Witness ==
    /\ AboutToPush
    /\ Len(stack) = 11
    /\ Depth = 11
    /\ count_all(given) = 12
    /\ PushFits(width, bits, CurrentPiece)
    /\ ~NewOverflows(width, height)

----------------------------------------------------------------------------
(* C27: the search terminates *)

\* solve_one has returned Ok(Some(..)) or Ok(None)
Returned == pc = "done" /\ result.tag \in {"Some", "None"}

----------------------------------------------------------------------------
(* C28: a solution is handed up as it is *)

\* the board of the search is complete
BoardComplete == SearchStarted /\ is_complete(bits)

\* Some(..) is on its way up and what it holds is the board as it stands
SolutionIsSnapshot ==
    /\ is_complete(bits)
    /\ solution = position(width, height, stack)

----------------------------------------------------------------------------
(* C29: the letters of a Position *)

\* what the claim has in square i of the Position of the stack st: a newline
\* in the border column, the letter of the entry whose bitmap holds bit i,
\* '.' elsewhere
OwedSquare(w, st, i) ==
    IF i % w = w - 1 THEN Newline
    ELSE LET owners == {k \in 1 .. Len(st) : i \in st[k].bitmap}
         IN  IF owners = {} THEN Dot ELSE Marker(MinOf(owners) - 1)

\* C29: in every state of a Board reached by pushes and pops, position()
\* returns; every entry of the stack has a bitmap of four bits, all of them
\* real cells; and the Position has the letter 'A' + i on the cells of the
\* bitmap of entry i (counted from 0), '.' on every other real cell and a
\* newline at every border position, so that cells with the same letter
\* belong to the same piece.
C29_LettersOnBitmaps ==
    pc = "board" =>
        /\ ~PositionPanics(width, height, stack)
        /\ \A k \in 1 .. Len(stack) :
              /\ Cardinality(stack[k].bitmap) = 4
              /\ \A i \in stack[k].bitmap : i < width * height /\ i % width # width - 1
        /\ position(width, height, stack)
              = [i \in 1 .. (width * height) |-> OwedSquare(width, stack, i - 1)]

----------------------------------------------------------------------------
(* C30: the order of the anchors and of the letters *)

\* the square at which an entry of the stack was anchored
Anchor(e) == trailing_zeros(e.bitmap)

AnchorsIncrease(st) ==
    \A j \in 1 .. Len(st), k \in 1 .. Len(st) :
        j < k => Anchor(st[j]) < Anchor(st[k])

\* the first square of a Position that carries the letter m
FirstAppearance(squares, m) ==
    MinOf({i \in 1 .. Len(squares) : squares[i] = m})

\* the letters of a Position are 'A' .. 'A' + n - 1 for some n, and each
\* appears for the first time after the one before it
LettersInOrder(squares) ==
    LET n == Cardinality(LettersOf(squares))
    IN  /\ LettersOf(squares) = {Marker(k) : k \in 0 .. (n - 1)}
        /\ \A k \in 1 .. (n - 1) :
              FirstAppearance(squares, Marker(k - 1))
                  < FirstAppearance(squares, Marker(k))

\* the cells of the grid that no entry of the stack covers
EmptyCells == Grid(row_count, column_count)
                  \ StackCells(width, stack, row_count, column_count)

\* C30: every push that succeeds anchors its piece at the first cell, in
\* row-major order, that no piece covers; in every state the anchors of the
\* entries of the stack increase strictly from the bottom to the top; and
\* in every Position that is rendered the letters appear for the first time
\* in alphabetical order, with 'A' on cell (0, 0) if the stack is not empty.
C30_AnchorsInOrder ==
    [][/\ Pushed =>
              /\ EmptyCells # {}
              /\ Anchor(stack'[Len(stack')]) = BitOf(width, FirstCell(EmptyCells))
       /\ pc = "board" => AnchorsIncrease(stack)
       /\ PositionTaken =>
              /\ LettersInOrder(result.squares)
              /\ Cardinality(LettersOf(result.squares)) = Len(stack)
              /\ Len(stack) >= 1 =>
                     CellAt(result.squares, column_count, 0, 0) = Marker(0)]_vars

\* the Position of tests::board::push_twice: "AB..", four times
C30_Witness ==
    /\ PositionTaken
    /\ row_count = 4
    /\ column_count = 4
    /\ Len(stack) = 2
    /\ \A r \in 0 .. 3 :
          /\ CellAt(result.squares, 4, r, 0) = Marker(0)
          /\ CellAt(result.squares, 4, r, 1) = Marker(1)
          /\ CellAt(result.squares, 4, r, 2) = Dot
          /\ CellAt(result.squares, 4, r, 3) = Dot
    /\ Anchor(stack[1]) = 0
    /\ Anchor(stack[2]) = 1

----------------------------------------------------------------------------
(* C31: what is_complete means *)

\* C31: on every board of R x C that the validation accepts, in every state
\* reached from Board::new(R, C) by pushes and pops, is_complete() holds
\* exactly if every cell of the grid is covered by an entry of the stack,
\* and exactly if the stack holds R x C / 4 entries; a board just built,
\* with R x C > 0, is not complete.
C31_CompleteMeansCovered ==
    (pc = "board" /\ Validated(row_count, column_count)) =>
        /\ is_complete(bits) <=>
               StackCells(width, stack, row_count, column_count)
                   = Grid(row_count, column_count)
        /\ is_complete(bits) <=> 4 * Len(stack) = row_count * column_count
        /\ (stack = <<>> /\ row_count * column_count > 0) => ~is_complete(bits)

----------------------------------------------------------------------------
(* The Display of a Position on its own: `{:#}` applied to any grid of
   labels *)

\* the bytes a square can hold; four labels realise every pattern of equal
\* and different squares around a point
Labels == {Dot, Marker(0), Marker(1), Marker(2)}

\* Position.squares for a grid of rows x cols: any label on every cell and
\* b'\n' after every row
LabelGrids(rows, cols) ==
    {[i \in 1 .. (rows * (cols + 1)) |->
         IF i % (cols + 1) = 0 THEN Newline ELSE f[i]] :
       f \in [1 .. (rows * (cols + 1)) -> Labels]}

\* the grids of at most MaxCells cells
GridDims ==
    {d \in (1 .. MaxCells) \X (1 .. MaxCells) : d[1] * d[2] <= MaxCells}

PrettyInit ==
    /\ \E d \in GridDims :
          /\ row_count = d[1]
          /\ column_count = d[2]
          /\ solution \in LabelGrids(d[1], d[2])
    /\ debug_build \in BOOLEAN
    /\ text = <<>>
    /\ pc = "position"
    /\ pieces = NoPieces
    /\ given = NoPieces
    /\ width = 0
    /\ height = 0
    /\ bits = {}
    /\ stack = <<>>
    /\ iter = <<>>
    /\ result = Pending
    /\ run = 1
    /\ first = Pending
    /\ entry = <<>>

\* format!("{:#}", position)
Format ==
    /\ pc = "position"
    /\ result' = [tag |-> "Pretty", squares |-> Pretty(solution)]
    /\ pc' = "formatted"
    /\ UNCHANGED <<row_count, column_count, text, debug_build, pieces, given,
                   width, height, bits, stack, iter, solution, run, first,
                   entry>>

PrettyNext == Format

PrettySpec == PrettyInit /\ [][PrettyNext]_vars

----------------------------------------------------------------------------
(* C32: the glyph '?' is never written *)

\* the points of the picture of a grid: rows 0 .. row_count, columns
\* 0 .. 2 * column_count
Points(rows, cols) == (0 .. rows) \X (0 .. (2 * cols))

\* C32: for every grid of labels, empty, partly filled or complete, the
\* char_index of every point of the picture is none of 1, 2, 4, 8, and the
\* text that `{:#}` writes holds no '?'.
C32_NoUnknownGlyph ==
    /\ pc \in {"position", "formatted"} =>
          \A pt \in Points(row_count, column_count) :
              CharIndex(solution, PrettyColumnCount(solution),
                        PrettyRowCount(solution), pt[1], pt[2])
                  \notin {1, 2, 4, 8}
    /\ pc = "formatted" =>
          \A i \in 1 .. Len(result.squares) : result.squares[i] # Unknown

\* a grid of 2 x 2 with four different labels has been written: the point
\* in the middle is a cross
C32_Witness ==
    /\ pc = "formatted"
    /\ row_count = 2
    /\ column_count = 2
    /\ Cardinality({solution[1], solution[2], solution[4], solution[5]}) = 4
    /\ CharIndex(solution, 2, 2, 1, 2) = 15
    /\ \E i \in 1 .. Len(result.squares) : result.squares[i] = Cross

----------------------------------------------------------------------------
(* The validation of solve_one on its own, on boards of any size: solve_one
   up to the call of Board::new *)

RECURSIVE Pow2(_)
Pow2(k) == IF k = 0 THEN 1 ELSE 2 * Pow2(k - 1)

\* the values of row_count and column_count
Sides == UNION {{Pow2(k), Pow2(k) + 1} : k \in 0 .. MaxShift}

\* the numbers of pieces
PieceCounts == 0 .. (MAX_PIECE_COUNT + 1)

ValidationInit ==
    /\ row_count \in Sides
    /\ column_count \in Sides
    /\ \E n \in PieceCounts : pieces = [NoPieces EXCEPT !["I"] = n]
    /\ debug_build \in BOOLEAN
    /\ text = <<>>
    /\ pc = "solve_one"
    /\ given = NoPieces
    /\ width = 0
    /\ height = 0
    /\ bits = {}
    /\ stack = <<>>
    /\ iter = <<>>
    /\ solution = <<>>
    /\ result = Pending
    /\ run = 1
    /\ first = Pending
    /\ entry = <<>>

\* solve_one passes the three checks and goes on to Board::new and the
\* search
SolveOneAccept ==
    /\ pc = "solve_one"
    /\ ~(debug_build /\ MulOverflows(row_count, column_count))
    /\ Validation(row_count, column_count, pieces) = "Ok"
    /\ given' = pieces
    /\ pc' = "new"
    /\ UNCHANGED <<row_count, column_count, text, debug_build, pieces, width,
                   height, bits, stack, iter, solution, result, run, first,
                   entry>>

ValidationNext ==
    \/ SolveOneMulPanic
    \/ SolveOneError
    \/ SolveOneAccept

ValidationSpec == ValidationInit /\ [][ValidationNext]_vars

----------------------------------------------------------------------------
(* C33: the validation and the true product *)

\* row_count x column_count, the number and not the u32, differs from
\* 4 x the number of pieces
ProductDiffers ==
    WideProduct(row_count, column_count) # Bytes(4 * count_all(given), 8)

\* C33: whenever row_count x column_count, taken as a number, differs from
\* 4 x the number of pieces, solve_one returns an error and goes on to no
\* search, also when the product is 2^32 or more.
C33_TrueProductCompared ==
    (pc \in {"new", "done", "panic"} /\ ProductDiffers) =>
        pc = "done" /\ result.tag \in ErrorTags

----------------------------------------------------------------------------
(* C34: the table of the fixed shapes *)

\* the seven one-sided tetrominoes in their standard position, as sets of
\* <<row, column>>
Tetromino ==
    [I |-> {<<0, 0>>, <<1, 0>>, <<2, 0>>, <<3, 0>>},
     O |-> {<<0, 0>>, <<0, 1>>, <<1, 0>>, <<1, 1>>},
     T |-> {<<0, 0>>, <<0, 1>>, <<0, 2>>, <<1, 1>>},
     J |-> {<<0, 1>>, <<1, 1>>, <<2, 0>>, <<2, 1>>},
     L |-> {<<0, 0>>, <<1, 0>>, <<2, 0>>, <<2, 1>>},
     S |-> {<<0, 1>>, <<0, 2>>, <<1, 0>>, <<1, 1>>},
     Z |-> {<<0, 0>>, <<0, 1>>, <<1, 1>>, <<1, 2>>}]

\* the number of different rotations of each
RotationCount == [I |-> 2, O |-> 1, T |-> 4, J |-> 4, L |-> 4, S |-> 2, Z |-> 2]

\* a quarter turn clockwise
Rotate(cells) == {<<a[2], 0 - a[1]>> : a \in cells}

\* the rotations of a set of cells, each moved so that its first cell in
\* row-major order is the origin
Rotations(cells) ==
    {Normalized(cells), Normalized(Rotate(cells)),
     Normalized(Rotate(Rotate(cells))),
     Normalized(Rotate(Rotate(Rotate(cells))))}

Adjacent(a, b) ==
    \/ a[1] = b[1] /\ (a[2] - b[2] = 1 \/ b[2] - a[2] = 1)
    \/ a[2] = b[2] /\ (a[1] - b[1] = 1 \/ b[1] - a[1] = 1)

RECURSIVE Reach(_, _)
Reach(cells, seen) ==
    LET next == seen \cup {b \in cells : \E a \in seen : Adjacent(a, b)}
    IN  IF next = seen THEN seen ELSE Reach(cells, next)

\* the cells hang together by their sides
Connected(cells) == Reach(cells, {FirstCell(cells)}) = cells

\* the anchor and the three offsets of a fixed piece
ShapeCells(v) == Footprint(v, <<0, 0>>)

\* the cells of the grid under the bits of one entry of the stack
EntryCells(e) ==
    {a \in Grid(row_count, column_count) : BitOf(width, a) \in e.bitmap}

\* the boards of tests::shapes
ShapeBoards == {<<5, 4>>, <<4, 5>>}

\* C34: each of the 19 fixed shapes is four different cells that hang
\* together, the anchor (0,0) first in row-major order (every offset has
\* row > 0, or row = 0 and column > 0); the 19 are pairwise different; the
\* shapes that PIECE_MAP gives to a kind are exactly the rotations of that
\* one-sided tetromino, 2 for I, 1 for O, 4 for T, J, L, 2 for S, Z; and
\* on the boards of tests::shapes every piece pushed covers a rotation of
\* the tetromino of its kind.
C34_ShapesAreRotations ==
    /\ \A v \in FixedPiece :
          /\ Cardinality(ShapeCells(v)) = 4
          /\ Connected(ShapeCells(v))
          /\ FirstCell(ShapeCells(v)) = <<0, 0>>
          /\ \A i \in 1 .. 3 :
                \/ piece_shape(v)[i][1] > 0
                \/ piece_shape(v)[i][1] = 0 /\ piece_shape(v)[i][2] > 0
    /\ \A v \in FixedPiece, w \in FixedPiece :
          v # w => ShapeCells(v) # ShapeCells(w)
    /\ \A p \in Piece :
          /\ {ShapeCells(v) : v \in {w \in FixedPiece : PIECE_MAP[w] = p}}
                = Rotations(Tetromino[p])
          /\ Cardinality({w \in FixedPiece : PIECE_MAP[w] = p}) = RotationCount[p]
    /\ Len(PIECE_MAP) = 19
    /\ (pc = "board" /\ <<row_count, column_count>> \in ShapeBoards) =>
          \A k \in 1 .. Len(stack) :
              /\ Cardinality(EntryCells(stack[k])) = 4
              /\ Normalized(EntryCells(stack[k]))
                    \in Rotations(Tetromino[stack[k].kind])

\* the Position of tests::shapes::j1
C34_Witness ==
    /\ PositionTaken
    /\ row_count = 4
    /\ column_count = 5
    /\ Len(stack) = 2
    /\ stack[2].kind = "J"
    /\ Normalized(EntryCells(stack[2])) = ShapeCells(J1)
    /\ Plain(result.squares) =
          <<"A", "A", "A", "A", "B", "\n",
            ".", ".", ".", ".", "B", "\n",
            ".", ".", ".", "B", "B", "\n",
            ".", ".", ".", ".", ".", "\n">>

====
